---- MODULE Spec2Model ----
(***************************************************************************)
(* DataForge (src/dataforge.py): the three-stage pipeline                  *)
(*   DataIngester.ingest -> Transformer.transform -> InsightEngine.generate_bi *)
(* modelled as a state machine over Python values.                         *)
(*                                                                         *)
(* A Python value x is a pair <<type, payload>>: x[1] names its type and   *)
(* x[2] is                                                                 *)
(*   "int"   the integer             "str"  the sequence of characters     *)
(*   "None"  0                       "bool" TRUE / FALSE                   *)
(*   "nan"   0  (the float NaN pandas uses for a missing cell)             *)
(*   "dict"  the sequence of <<key, value>> in insertion order             *)
(*   "list"  the sequence of values                                        *)
(*   "DataFrame"  [columns, dtypes, rows], rows parallel to columns        *)
(*   "Figure"     [x, y, title]                                            *)
(* Floats that are not NaN are exact rationals (see Rat below).            *)
(***************************************************************************)
EXTENDS Integers, Sequences, FiniteSets, TLC

\* ---------------------------------------------------------------- bounds
MaxElems == 2       \* elements of a JSON array text
MaxSheetRows == 3   \* rows of an uploaded sheet
MaxChunk == 3       \* explicit chunk_size arguments 1..MaxChunk
MaxRows == 2        \* rows of a table handed to generate_bi directly
MaxCols == 2        \* columns of a table handed to generate_bi directly
MaxBatches == 3     \* total number of batches handed to transform directly

\* chunk_size=10000, the default of ingest
DefaultChunkSize == 10000

\* ---------------------------------------------------------- Python values
PyInt(n) == <<"int", n>>
PyStr(s) == <<"str", s>>
PyBool(b) == <<"bool", b>>
PyDict(items) == <<"dict", items>>
PyList(items) == <<"list", items>>
PyNone == <<"None", 0>>
NaN == <<"nan", 0>>

Range(s) == {s[i] : i \in 1..Len(s)}

\* pd.isna on a cell
isna(x) == x[1] \in {"None", "nan"}

\* the keys used in the inputs, and the key of the fallback record
price == PyStr(<<"p", "r", "i", "c", "e">>)
qty == PyStr(<<"q", "t", "y">>)
raw == PyStr(<<"r", "a", "w">>)

\* ------------------------------------------------------------------ JSON
Digits == <<"0", "1", "2", "3", "4", "5", "6", "7", "8", "9">>

IsDigit(c) == c \in Range(Digits)

DigitVal(c) == (CHOOSE i \in 1..10 : Digits[i] = c) - 1

RECURSIVE IntChars(_)
\* str(n) for n >= 0
IntChars(n) == IF n < 10 THEN <<Digits[n + 1]>> ELSE IntChars(n \div 10) \o <<Digits[(n % 10) + 1]>>

ParseFail == [ok |-> FALSE, val |-> PyNone, pos |-> 0]

ParseOk(val, pos) == [ok |-> TRUE, val |-> val, pos |-> pos]

RECURSIVE SkipWs(_, _)
\* the position of the first non-blank character at or after i
SkipWs(s, i) == IF i <= Len(s) /\ s[i] = " " THEN SkipWs(s, i + 1) ELSE i

\* s[i..] starts with the word w
StartsWith(s, i, w) == i + Len(w) - 1 <= Len(s) /\ SubSeq(s, i, i + Len(w) - 1) = w

RECURSIVE ParseDigits(_, _, _)
\* the digits of a number after its first: [val, pos]
ParseDigits(s, i, acc) ==
    IF i <= Len(s) /\ IsDigit(s[i])
    THEN ParseDigits(s, i + 1, acc * 10 + DigitVal(s[i]))
    ELSE ParseOk(PyInt(acc), i)

\* a JSON number at i (s[i] is a digit): 0 | [1-9][0-9]*
ParseNumber(s, i) ==
    IF s[i] = "0" THEN ParseOk(PyInt(0), i + 1) ELSE ParseDigits(s, i + 1, DigitVal(s[i]))

RECURSIVE ParseString(_, _, _)
\* the characters of a JSON string whose opening quote is before i
ParseString(s, i, acc) ==
    IF i > Len(s) THEN ParseFail
    ELSE IF s[i] = "\"" THEN ParseOk(PyStr(acc), i + 1)
    ELSE ParseString(s, i + 1, Append(acc, s[i]))

\* d[k] = val on a dict: a key already present keeps its place and takes the new value
DictSet(items, k, val) ==
    IF \E n \in 1..Len(items) : items[n][1] = k
    THEN [n \in 1..Len(items) |-> IF items[n][1] = k THEN <<k, val>> ELSE items[n]]
    ELSE Append(items, <<k, val>>)

RECURSIVE ParseValue(_, _), ParseMembers(_, _, _), ParseItems(_, _, _)
\* one JSON value at or after i
ParseValue(s, i) ==
    LET j == SkipWs(s, i) IN
    IF j > Len(s) THEN ParseFail
    ELSE IF s[j] = "{" THEN
        (IF SkipWs(s, j + 1) <= Len(s) /\ s[SkipWs(s, j + 1)] = "}"
         THEN ParseOk(PyDict(<<>>), SkipWs(s, j + 1) + 1)
         ELSE ParseMembers(s, j + 1, <<>>))
    ELSE IF s[j] = "[" THEN
        (IF SkipWs(s, j + 1) <= Len(s) /\ s[SkipWs(s, j + 1)] = "]"
         THEN ParseOk(PyList(<<>>), SkipWs(s, j + 1) + 1)
         ELSE ParseItems(s, j + 1, <<>>))
    ELSE IF s[j] = "\"" THEN ParseString(s, j + 1, <<>>)
    ELSE IF IsDigit(s[j]) THEN ParseNumber(s, j)
    ELSE IF StartsWith(s, j, <<"t", "r", "u", "e">>) THEN ParseOk(PyBool(TRUE), j + 4)
    ELSE IF StartsWith(s, j, <<"f", "a", "l", "s", "e">>) THEN ParseOk(PyBool(FALSE), j + 5)
    ELSE IF StartsWith(s, j, <<"n", "u", "l", "l">>) THEN ParseOk(PyNone, j + 4)
    ELSE ParseFail

\* the members of an object after "{" or ",": "key" : value, then "," or "}"
ParseMembers(s, i, acc) ==
    LET j == SkipWs(s, i) IN
    IF j > Len(s) \/ s[j] # "\"" THEN ParseFail
    ELSE LET key == ParseString(s, j + 1, <<>>) IN
    IF ~key.ok THEN ParseFail
    ELSE LET c == SkipWs(s, key.pos) IN
    IF c > Len(s) \/ s[c] # ":" THEN ParseFail
    ELSE LET val == ParseValue(s, c + 1) IN
    IF ~val.ok THEN ParseFail
    ELSE LET e == SkipWs(s, val.pos)
             items == DictSet(acc, key.val, val.val) IN
    IF e > Len(s) THEN ParseFail
    ELSE IF s[e] = "}" THEN ParseOk(PyDict(items), e + 1)
    ELSE IF s[e] = "," THEN ParseMembers(s, e + 1, items)
    ELSE ParseFail

\* the items of an array after "[" or ",": value, then "," or "]"
ParseItems(s, i, acc) ==
    LET val == ParseValue(s, i) IN
    IF ~val.ok THEN ParseFail
    ELSE LET e == SkipWs(s, val.pos) IN
    IF e > Len(s) THEN ParseFail
    ELSE IF s[e] = "]" THEN ParseOk(PyList(Append(acc, val.val)), e + 1)
    ELSE IF s[e] = "," THEN ParseItems(s, e + 1, Append(acc, val.val))
    ELSE ParseFail

\* json.loads(s): [ok, val]; ok = FALSE is json.JSONDecodeError
json_loads(s) ==
    LET r == ParseValue(s, 1) IN
    IF r.ok /\ SkipWs(s, r.pos) = Len(s) + 1
    THEN [ok |-> TRUE, val |-> r.val]
    ELSE [ok |-> FALSE, val |-> PyNone]

RECURSIVE Dumps(_), DumpsItems(_, _), DumpsMembers(_, _)
\* the JSON text of a value (json.dumps layout), used to write the valid inputs
Dumps(x) ==
    CASE x[1] = "int" -> IntChars(x[2])
      [] x[1] = "str" -> <<"\"">> \o x[2] \o <<"\"">>
      [] x[1] = "bool" -> IF x[2] THEN <<"t", "r", "u", "e">> ELSE <<"f", "a", "l", "s", "e">>
      [] x[1] = "None" -> <<"n", "u", "l", "l">>
      [] x[1] = "list" -> <<"[">> \o DumpsItems(x[2], 1) \o <<"]">>
      [] x[1] = "dict" -> <<"{">> \o DumpsMembers(x[2], 1) \o <<"}">>

DumpsItems(items, n) ==
    IF n > Len(items) THEN <<>>
    ELSE (IF n > 1 THEN <<",", " ">> ELSE <<>>) \o Dumps(items[n]) \o DumpsItems(items, n + 1)

DumpsMembers(items, n) ==
    IF n > Len(items) THEN <<>>
    ELSE (IF n > 1 THEN <<",", " ">> ELSE <<>>) \o Dumps(items[n][1])
         \o <<":", " ">> \o Dumps(items[n][2]) \o DumpsMembers(items, n + 1)


\* ---------------------------------------------------------------- pandas
Frame(columns, dtypes, rows) ==
    <<"DataFrame", [columns |-> columns, dtypes |-> dtypes, rows |-> rows]>>

\* pd.DataFrame()
EmptyFrame == Frame(<<>>, <<>>, <<>>)

\* the dtype pandas infers for a column holding the one value x
InferDtype(x) ==
    CASE x[1] = "int" -> "int64"
      [] x[1] = "bool" -> "bool"
      [] x[1] = "nan" -> "float64"
      [] OTHER -> "object"

\* pd.DataFrame(chunk) for a list chunk: one row per item of the list
DataFrameOfItems(chunk) ==
    IF chunk[1] = "list"
    THEN Frame(<<PyInt(0)>>, <<"object">>, [n \in 1..Len(chunk[2]) |-> <<chunk[2][n]>>])
    ELSE LET row == CASE chunk[1] = "dict" -> [n \in 1..Len(chunk[2]) |-> chunk[2][n][2]]
                      [] OTHER -> <<chunk>>
             columns == CASE chunk[1] = "dict" -> [n \in 1..Len(chunk[2]) |-> chunk[2][n][1]]
                          [] OTHER -> <<PyInt(0)>>
         IN Frame(columns, [n \in 1..Len(row) |-> InferDtype(row[n])], <<row>>)

\* pd.DataFrame([chunk]): a dict is one row with its keys as columns, a list is
\* one row with the columns 0..n-1, any other value is one row with the column 0
DataFrameOfOne(chunk) ==
    LET row == CASE chunk[1] = "dict" -> [n \in 1..Len(chunk[2]) |-> chunk[2][n][2]]
                 [] chunk[1] = "list" -> chunk[2]
                 [] OTHER -> <<chunk>>
        columns == CASE chunk[1] = "dict" -> [n \in 1..Len(chunk[2]) |-> chunk[2][n][1]]
                     [] OTHER -> [n \in 1..Len(row) |-> PyInt(n - 1)]
    IN Frame(columns, [n \in 1..Len(row) |-> InferDtype(row[n])], <<row>>)

\* position of the label c in columns, 0 when absent
ColIndex(columns, c) ==
    IF \E n \in 1..Len(columns) : columns[n] = c
    THEN CHOOSE n \in 1..Len(columns) : columns[n] = c
    ELSE 0

RECURSIVE AppendNew(_, _)
\* acc followed by the labels of s it lacks, in the order of s (Index.union, sort=False)
AppendNew(acc, s) ==
    IF s = <<>> THEN acc
    ELSE AppendNew(IF ColIndex(acc, Head(s)) = 0 THEN Append(acc, Head(s)) ELSE acc, Tail(s))

\* pd.concat(..., join_axes=first): only the columns of the first frame survive
FirstFrameColumns(frames) == IF frames = <<>> THEN <<>> ELSE frames[1][2].columns

RECURSIVE UnionColumns(_)
\* the columns of the concatenation: the union, in order of first appearance
UnionColumns(frames) ==
    IF frames = <<>> THEN <<>>
    ELSE AppendNew(UnionColumns(SubSeq(frames, 1, Len(frames) - 1)), frames[Len(frames)][2].columns)

\* pandas.core.dtypes.cast.find_common_type on a set of dtypes
find_common_type(dtypes) ==
    IF Cardinality(dtypes) = 1 THEN CHOOSE d \in dtypes : TRUE
    ELSE IF dtypes \subseteq {"int64", "float64"} THEN "float64"
    ELSE "object"

\* ensure_dtype_can_hold_na
ensure_dtype_can_hold_na(d) ==
    CASE d = "int64" -> "float64"
      [] d = "bool" -> "object"
      [] OTHER -> d

\* JoinUnit.is_na for the column at position j of frame f: the column can hold
\* a missing value and holds nothing else
UnitIsNa(f, j) ==
    /\ f[2].dtypes[j] \in {"float64", "object"}
    /\ \A r \in 1..Len(f[2].rows) : isna(f[2].rows[r][j])

\* What concat does with one column c of the result (internals/concat.py):
\* empty is the dtype the missing parts are filled with, upcast says whether
\* the all-missing parts are rewritten as NaN of that dtype
ConcatPlan(frames, c) ==
    LET has == {n \in 1..Len(frames) : ColIndex(frames[n][2].columns, c) # 0}
        dt(n) == frames[n][2].dtypes[ColIndex(frames[n][2].columns, c)]
        na(n) == UnitIsNa(frames[n], ColIndex(frames[n][2].columns, c))
        missing == has # 1..Len(frames)
        same == ~missing /\ Cardinality({dt(n) : n \in has}) = 1
        live == {dt(n) : n \in {m \in has : ~na(m)}}
        common == find_common_type(IF live = {} THEN {dt(n) : n \in has} ELSE live)
        empty == IF same THEN find_common_type({dt(n) : n \in has})
                 ELSE IF missing THEN ensure_dtype_can_hold_na(common) ELSE common
        upcast == ~same /\ empty \in {"float64", "object"}
        parts == {IF upcast /\ na(n) THEN empty ELSE dt(n) : n \in has}
                 \cup (IF missing THEN {empty} ELSE {})
    IN [upcast |-> upcast, dtype |-> find_common_type(parts)]

\* the rows frame f contributes to the concatenation over columns
ReindexRows(frames, n, columns) ==
    LET f == frames[n] IN
    [r \in 1..Len(f[2].rows) |->
        [j \in 1..Len(columns) |->
            LET k == ColIndex(f[2].columns, columns[j]) IN
            IF k = 0 THEN NaN
            ELSE IF ConcatPlan(frames, columns[j]).upcast /\ UnitIsNa(f, k) THEN NaN
            ELSE f[2].rows[r][k]]]

RECURSIVE ConcatRows(_, _, _)
ConcatRows(frames, n, columns) ==
    IF n > Len(frames) THEN <<>>
    ELSE ReindexRows(frames, n, columns) \o ConcatRows(frames, n + 1, columns)

\* pd.concat(frames) for a non-empty list: rows in order, columns united, a
\* field a frame lacks filled with NaN
concat(frames) ==
    LET columns == UnionColumns(frames) IN
    Frame(columns,
          [j \in 1..Len(columns) |-> ConcatPlan(frames, columns[j]).dtype],
          ConcatRows(frames, 1, columns))

\* df.iloc[i:j] with 0 <= i: the rows i..j-1, counted from 0
iloc(frame, i, j) ==
    Frame(frame[2].columns, frame[2].dtypes,
          SubSeq(frame[2].rows, i + 1, IF j < Len(frame[2].rows) THEN j ELSE Len(frame[2].rows)))

\* ------------------------------------------------------------ exceptions
Return(val) == [raised |-> "none", val |-> val]

Raise(e) == [raised |-> e, val |-> PyNone]

\* ---------------------------------------------------------- DataIngester
\* range(0, n, step) cut to the full steps: the last, shorter chunk is lost
range_floor(n, step) == [k \in 1..(n \div step) |-> (k - 1) * step]

\* range(0, n, step) for step > 0
range(n, step) == [k \in 1..((n + step - 1) \div step) |-> (k - 1) * step]

\* hasattr(input_data, 'read')
hasattr_read(input_data) == input_data[1] = "file"

\* pd.read_excel(input_data): the sheet the uploaded file holds
read_excel(input_data) == input_data[2]

\* ingest whose except branch returns no batch at all
ingest_no_fallback(source_type, input_data, chunk_size) ==
    IF source_type = "text" THEN
        LET data == json_loads(input_data[2]) IN
        IF data.ok
        THEN Return(IF data.val[1] = "dict" THEN PyList(<<data.val>>) ELSE data.val)
        ELSE Return(PyList(<<>>))
    ELSE
        IF hasattr_read(input_data) THEN
            LET df_full == read_excel(input_data)
                starts == range(Len(df_full[2].rows), chunk_size)
            IN Return(PyList([k \in 1..Len(starts) |->
                                 iloc(df_full, starts[k], starts[k] + chunk_size)]))
        ELSE Return(PyList(<<>>))

\* ingest that returns a parsed object as it is, not wrapped in a list
ingest_unwrapped(source_type, input_data, chunk_size) ==
    IF source_type = "text" THEN
        LET data == json_loads(input_data[2]) IN
        IF data.ok
        THEN Return(data.val)
        ELSE Return(PyList(<<PyDict(<<<<raw, input_data>>>>)>>))
    ELSE
        IF hasattr_read(input_data) THEN
            LET df_full == read_excel(input_data)
                starts == range(Len(df_full[2].rows), chunk_size)
            IN Return(PyList([k \in 1..Len(starts) |->
                                 iloc(df_full, starts[k], starts[k] + chunk_size)]))
        ELSE Return(PyList(<<>>))

\* DataIngester.ingest(source_type, input_data, chunk_size)
ingest(source_type, input_data, chunk_size) ==
    IF source_type = "text" THEN
        LET data == json_loads(input_data[2]) IN
        IF data.ok
        THEN Return(IF data.val[1] = "dict" THEN PyList(<<data.val>>) ELSE data.val)
        ELSE Return(PyList(<<PyDict(<<<<raw, input_data>>>>)>>))
    ELSE
        IF hasattr_read(input_data) THEN
            LET df_full == read_excel(input_data)
                starts == range(Len(df_full[2].rows), chunk_size)
            IN Return(PyList([k \in 1..Len(starts) |->
                                 iloc(df_full, starts[k], starts[k] + chunk_size)]))
        ELSE Return(PyList(<<>>))

\* ----------------------------------------------------------- Transformer
\* iter(x): what a for loop runs over; raised = "TypeError" when x is not iterable
Iterate(x) ==
    CASE x[1] = "list" -> Return(x[2])
      [] x[1] = "str" -> Return([n \in 1..Len(x[2]) |-> PyStr(<<x[2][n]>>)])
      [] x[1] = "dict" -> Return([n \in 1..Len(x[2]) |-> x[2][n][1]])
      [] OTHER -> Raise("TypeError")

\* transform with a GPU path that keeps only the first chunk
transform_gpu(gpu_mode, chunks) ==
    LET it == Iterate(chunks) IN
    IF it.raised # "none" THEN Raise(it.raised)
    ELSE LET all_df == [n \in 1..Len(it.val) |->
                           IF it.val[n][1] = "DataFrame" THEN it.val[n]
                           ELSE DataFrameOfOne(it.val[n])]
         IN Return(IF all_df = <<>> THEN EmptyFrame
                   ELSE IF gpu_mode THEN all_df[1] ELSE concat(all_df))

\* Transformer.transform(gpu_mode, chunks)
transform(gpu_mode, chunks) ==
    LET it == Iterate(chunks) IN
    IF it.raised # "none" THEN Raise(it.raised)
    ELSE LET all_df == [n \in 1..Len(it.val) |->
                           IF it.val[n][1] = "DataFrame" THEN it.val[n]
                           ELSE DataFrameOfOne(it.val[n])]
         IN Return(IF all_df # <<>> THEN concat(all_df) ELSE EmptyFrame)

\* --------------------------------------------------------- InsightEngine
RECURSIVE GCD(_, _)
GCD(a, b) == IF b = 0 THEN a ELSE GCD(b, a % b)

\* a float: NaN, or the exact rational num/den in lowest terms
Rat(num, den) ==
    LET g == GCD(num, den) IN [nan |-> FALSE, num |-> num \div g, den |-> den \div g]

RatNaN == [nan |-> TRUE, num |-> 0, den |-> 1]

RatAdd(a, b) == Rat(a.num * b.den + b.num * a.den, a.den * b.den)

RECURSIVE RatSum(_)
RatSum(s) == IF s = <<>> THEN Rat(0, 1) ELSE RatAdd(Head(s), RatSum(Tail(s)))

\* the members of s that satisfy Test, in order
RECURSIVE SelectSeq2(_, _)
SelectSeq2(s, keep) ==
    IF s = <<>> THEN <<>>
    ELSE (IF Head(s) \in keep THEN <<Head(s)>> ELSE <<>>) \o SelectSeq2(Tail(s), keep)

\* Series.mean(), skipna=True: the mean of the values that are not NaN, NaN when none is left
SeriesMean(values) ==
    LET kept == SelectSeq2(values, {v \in Range(values) : ~v.nan})
        total == RatSum(kept)
    IN IF kept = <<>> THEN RatNaN ELSE Rat(total.num, total.den * Len(kept))

\* the float in a cell of a numeric column
CellFloat(x) == IF isna(x) THEN RatNaN ELSE Rat(x[2], 1)

\* df.select_dtypes(include=['number']): the int64 and float64 columns, in order
select_dtypes_number(frame) ==
    LET pos == SelectSeq2([j \in 1..Len(frame[2].columns) |-> j],
                          {j \in 1..Len(frame[2].columns) : frame[2].dtypes[j] \in {"int64", "float64"}})
    IN Frame([j \in 1..Len(pos) |-> frame[2].columns[pos[j]]],
             [j \in 1..Len(pos) |-> frame[2].dtypes[pos[j]]],
             [r \in 1..Len(frame[2].rows) |-> [j \in 1..Len(pos) |-> frame[2].rows[r][pos[j]]]])

\* DataFrame.empty taken for "has no rows"
empty_rows_only(frame) == Len(frame[2].rows) = 0

\* DataFrame.empty: some axis has length 0
empty(frame) == Len(frame[2].columns) = 0 \/ Len(frame[2].rows) = 0

\* the rows describe() gives a numeric frame
describe_index == {"count", "mean", "std", "min", "25%", "50%", "75%", "max"}

\* column means that count a missing cell as 0 (fillna(0) before the mean)
ColumnMeansAllRows(frame) ==
    [j \in 1..Len(frame[2].columns) |->
        LET total == RatSum(SelectSeq2([r \in 1..Len(frame[2].rows) |-> CellFloat(frame[2].rows[r][j])],
                                       {Rat(n, 1) : n \in 0..10}))
        IN Rat(total.num, total.den * Len(frame[2].rows))]

\* the mean of every column of a numeric frame: summary.loc['mean'], numeric_df.mean()
ColumnMeans(frame) ==
    [j \in 1..Len(frame[2].columns) |->
        SeriesMean([r \in 1..Len(frame[2].rows) |-> CellFloat(frame[2].rows[r][j])])]

LowerCase == <<"a", "b", "c", "d", "e", "f", "g", "h", "i", "j", "k", "l", "m", "n", "o", "p", "q", "r", "s", "t", "u", "v", "w", "x", "y", "z">>

UpperCase == <<"A", "B", "C", "D", "E", "F", "G", "H", "I", "J", "K", "L", "M", "N", "O", "P", "Q", "R", "S", "T", "U", "V", "W", "X", "Y", "Z">>

IsLetter(c) == c \in Range(LowerCase) \cup Range(UpperCase)

upper(c) == IF c \in Range(LowerCase) THEN UpperCase[CHOOSE i \in 1..26 : LowerCase[i] = c] ELSE c

lower(c) == IF c \in Range(UpperCase) THEN LowerCase[CHOOSE i \in 1..26 : UpperCase[i] = c] ELSE c

\* str.title(): a letter that follows a letter is lowered, any other letter is raised
title(s) ==
    [i \in 1..Len(s) |-> IF i > 1 /\ IsLetter(s[i - 1]) THEN lower(s[i]) ELSE upper(s[i])]

\* f"{x:.2f}" for x >= 0: x rounded to hundredths, ties to even; "nan" for NaN
Format2f(x) ==
    IF x.nan THEN <<"n", "a", "n">>
    ELSE LET q == (100 * x.num) \div x.den
             r == (100 * x.num) % x.den
             h == IF 2 * r > x.den \/ (2 * r = x.den /\ q % 2 = 1) THEN q + 1 ELSE q
         IN IntChars(h \div 100) \o <<".", Digits[((h \div 10) % 10) + 1], Digits[(h % 10) + 1]>>

\* px.bar(x=..., y=..., title=...); px.bar(title=...) is the chart with no bars
px_bar(x, y, chart_title) == <<"Figure", [x |-> x, y |-> y, title |-> chart_title]>>

NoNumericTitle == <<" ", "I", "n", "s", "i", "g", "h", "t", "s", ":", " ", "N", "o", " ", "n", "u", "m", "e", "r", "i", "c", " ", "d", "a", "t", "a">>

AddNumbers == <<"A", "d", "d", " ", "n", "u", "m", "b", "e", "r", "s", " ", "f", "o", "r", " ", "s", "t", "a", "t", "s", "!">>

MeanInsights == <<" ", "M", "e", "a", "n", " ", "I", "n", "s", "i", "g", "h", "t", "s">>

KeyMetric == <<"K", "e", "y", " ", "M", "e", "t", "r", "i", "c", ":", " ", "A", "v", "g", " ", "M", "e", "a", "n", " ">>

Numerics == <<" ", "(", "N", "u", "m", "e", "r", "i", "c", "s", ":", " ">>

Cols == <<" ", "c", "o", "l", "s", ")">>

\* InsightEngine.generate_bi(df, domain): [fig, summary]
generate_bi(frame, domain_label) ==
    LET numeric_df == select_dtypes_number(frame) IN
    IF empty(numeric_df)
    THEN [fig |-> px_bar(<<>>, <<>>, title(domain_label[2]) \o NoNumericTitle),
          summary |-> PyStr(AddNumbers)]
    ELSE LET mean_values == IF "mean" \in describe_index
                            THEN ColumnMeans(numeric_df)
                            ELSE ColumnMeans(numeric_df)
             avg_metric == IF mean_values # <<>> THEN SeriesMean(mean_values) ELSE Rat(0, 1)
         IN [fig |-> px_bar(numeric_df[2].columns, mean_values, title(domain_label[2]) \o MeanInsights),
             summary |-> PyStr(KeyMetric \o Format2f(avg_metric) \o Numerics
                               \o IntChars(Len(numeric_df[2].columns)) \o Cols)]

\* ---------------------------------------------------------------- inputs
\* the texts typed into the text area: the JSON texts of small values, and
\* texts json.loads rejects
Keys == {price, qty}

FieldValues == {PyInt(10), PyInt(2), PyStr(<<"x">>), PyNone, PyList(<<PyInt(2)>>)}

Objects ==
    {PyDict(<<>>)}
    \cup {PyDict(<<<<k, c>>>>) : k \in Keys, c \in FieldValues}
    \cup {PyDict(<<<<k[1], c[1]>>, <<k[2], c[2]>>>>) :
            k \in {kk \in Keys \X Keys : kk[1] # kk[2]}, c \in FieldValues \X FieldValues}

Scalars == {PyInt(10), PyStr(<<"x", "y">>), PyStr(<<>>), PyBool(TRUE), PyNone}

Elements ==
    {PyInt(2), PyStr(<<"x">>), PyNone, PyBool(FALSE),
     PyList(<<>>), PyList(<<PyInt(2), PyStr(<<"x">>)>>),
     PyDict(<<>>), PyDict(<<<<price, PyInt(10)>>>>), PyDict(<<<<qty, PyInt(2)>>>>),
     PyDict(<<<<price, PyNone>>>>), PyDict(<<<<qty, PyInt(2)>>, <<price, PyInt(2)>>>>)}

\* the arrays of n elements
ArraysOf(n) == {PyList(s) : s \in [1..n -> Elements]}

InvalidTexts ==
    {<<>>,
     <<"h", "i">>,
     <<"{", "\"", "p", "r", "i", "c", "e", "\"", ":", " ", "1", "0">>,
     <<"[", "2", ",", " ", "1", "0", ",", "]">>,
     <<"{", "'", "q", "t", "y", "'", ":", " ", "2", "}">>,
     <<"1", "0", " ", "2">>}

\* a valid object text that names one key twice: {"qty":1,"qty":2}
RepeatedKeyText ==
    <<"{", "\"", "q", "t", "y", "\"", ":", "1", ",", "\"", "q", "t", "y", "\"", ":", "2", "}">>

\* the texts of the objects
ObjectTexts == {Dumps(d) : d \in Objects}

\* input_data is one of the texts
IsTextInput(text) ==
    \/ \E x \in Scalars \cup Objects : text = PyStr(Dumps(x))
    \/ \E n \in 0..MaxElems : \E x \in ArraysOf(n) : text = PyStr(Dumps(x))
    \/ \E chars \in InvalidTexts \cup {RepeatedKeyText} : text = PyStr(chars)

\* the sheets an uploaded file holds: price is a float column, qty an int column
SheetsOf(columns, dtypes, values) ==
    UNION {{Frame(columns, dtypes, rows) : rows \in [1..n -> values]} : n \in 0..MaxSheetRows}

Sheets ==
    SheetsOf(<<price>>, <<"float64">>, {<<NaN>>, <<PyInt(2)>>})
    \cup SheetsOf(<<price, qty>>, <<"float64", "int64">>,
                  {NaN, PyInt(2)} \X {PyInt(2), PyInt(10)})

\* what the file uploader hands over: a readable file, or None when nothing is uploaded
Uploads == {<<"file", sheet>> : sheet \in Sheets} \cup {PyNone}

ChunkSizes == 1..MaxChunk \cup {DefaultChunkSize}

Domains ==
    {PyStr(<<"g", "e", "n", "e", "r", "i", "c">>),
     PyStr(<<"R", "e", "t", "a", "i", "l", " ", "(", "S", "a", "l", "e", "s", ")">>)}

\* ----------------------------------------------------------- the pipeline
VARIABLES
    pc,           \* "ingest", "transform", "insight", "done", "raised"
    source_type, input_data, chunk_size,   \* the arguments of ingest
    gpu_mode,     \* the sidebar checkbox, handed to transform
    domain,       \* the sidebar selectbox, handed to generate_bi
    chunks,       \* what ingest returned
    df,           \* what transform returned
    fig, summary, \* what generate_bi returned
    raised,       \* the exception that escaped, "none" when none did
    prev,         \* the settings and results of the previous press
    batches1, batches2, df1, df2   \* direct calls of transform on two batch lists

vars == <<pc, source_type, input_data, chunk_size, gpu_mode, domain, chunks, df, fig,
          summary, raised, prev, batches1, batches2, df1, df2>>

Fresh ==
    /\ chunks = PyNone /\ df = PyNone /\ fig = PyNone /\ summary = PyNone
    /\ raised = "none" /\ prev = PyNone

NoDirectCalls ==
    /\ batches1 = <<>> /\ batches2 = <<>> /\ df1 = PyNone /\ df2 = PyNone

Init ==
    /\ pc = "ingest"
    /\ \/ /\ source_type = "text"
          /\ IsTextInput(input_data)
          /\ chunk_size = DefaultChunkSize
       \/ /\ source_type = "excel"
          /\ input_data \in Uploads
          /\ chunk_size \in ChunkSizes
    /\ gpu_mode \in BOOLEAN
    /\ domain \in Domains
    /\ Fresh
    /\ NoDirectCalls

\* chunks = DataIngester.ingest(...)
Ingest ==
    /\ pc = "ingest"
    /\ LET r == ingest(source_type, input_data, chunk_size) IN
        /\ chunks' = r.val
        /\ raised' = r.raised
        /\ pc' = IF r.raised = "none" THEN "transform" ELSE "raised"
    /\ UNCHANGED <<source_type, input_data, chunk_size, gpu_mode, domain, df, fig, summary,
                   prev, batches1, batches2, df1, df2>>

\* df = Transformer.transform(gpu_mode, chunks)
Transform ==
    /\ pc = "transform"
    /\ LET r == transform(gpu_mode, chunks) IN
        /\ df' = r.val
        /\ raised' = r.raised
        /\ pc' = IF r.raised = "none" THEN "insight" ELSE "raised"
    /\ UNCHANGED <<source_type, input_data, chunk_size, gpu_mode, domain, chunks, fig,
                   summary, prev, batches1, batches2, df1, df2>>

\* fig, summary = InsightEngine.generate_bi(df, domain)
GenerateBI ==
    /\ pc = "insight"
    /\ LET r == generate_bi(df, domain) IN
        /\ fig' = r.fig
        /\ summary' = r.summary
    /\ pc' = "done"
    /\ UNCHANGED <<source_type, input_data, chunk_size, gpu_mode, domain, chunks, df,
                   raised, prev, batches1, batches2, df1, df2>>

\* the sidebar settings are changed and the button is pressed again on the same input
Rerun ==
    /\ pc = "done"
    /\ prev' = <<"run", [gpu_mode |-> gpu_mode, domain |-> domain, df |-> df,
                             fig |-> fig, summary |-> summary]>>
    /\ gpu_mode' \in BOOLEAN
    /\ domain' \in Domains
    /\ <<gpu_mode', domain'>> # <<gpu_mode, domain>>
    /\ pc' = "ingest"
    /\ chunks' = PyNone /\ df' = PyNone /\ fig' = PyNone /\ summary' = PyNone
    /\ UNCHANGED <<source_type, input_data, chunk_size, raised, batches1, batches2, df1, df2>>

Next == Ingest \/ Transform \/ GenerateBI \/ Rerun

Spec == Init /\ [][Next]_vars

\* ----------------------------------------- generate_bi called on a table
\* the tables a caller can hand to generate_bi: up to MaxCols columns of the
\* dtypes int64, float64, object and bool, up to MaxRows rows
Labels == {price, qty, PyInt(0)}

DtypeValues(d) ==
    CASE d = "int64" -> {PyInt(2), PyInt(10)}
      [] d = "float64" -> {NaN, PyInt(2)}
      [] d = "object" -> {PyStr(<<"x">>)}
      [] d = "bool" -> {PyBool(TRUE)}

ColumnsOf(n) ==
    UNION {{[dtype |-> d, cells |-> c] : c \in [1..n -> DtypeValues(d)]} :
            d \in {"int64", "float64", "object", "bool"}}

LabelSeqs ==
    UNION {{s \in [1..k -> Labels] : \A i, j \in 1..k : i # j => s[i] # s[j]} : k \in 0..MaxCols}

\* frame is one of the tables
IsTable(frame) ==
    \E labels \in LabelSeqs, n \in 0..MaxRows :
        \E cs \in [1..Len(labels) -> ColumnsOf(n)] :
            frame = Frame(labels,
                          [j \in 1..Len(labels) |-> cs[j].dtype],
                          [r \in 1..n |-> [j \in 1..Len(labels) |-> cs[j].cells[r]]])

InitInsight ==
    /\ pc = "insight"
    /\ source_type = "table" /\ input_data = PyNone /\ chunk_size = DefaultChunkSize
    /\ gpu_mode = FALSE
    /\ domain \in Domains
    /\ chunks = PyNone /\ fig = PyNone /\ summary = PyNone /\ raised = "none" /\ prev = PyNone
    /\ IsTable(df)
    /\ NoDirectCalls

NextInsight == GenerateBI

SpecInsight == InitInsight /\ [][NextInsight]_vars

\* --------------------------------------- transform called on batch lists
\* the batches a caller can hand to transform: records, values that are no
\* mapping, and tabular chunks
Batches ==
    {PyDict(<<<<price, PyInt(10)>>>>), PyDict(<<<<qty, PyStr(<<"x">>)>>, <<price, PyNone>>>>),
     PyDict(<<>>), PyInt(2), PyList(<<PyInt(2), PyInt(10)>>),
     Frame(<<qty, price>>, <<"int64", "float64">>, <<<<PyInt(2), NaN>>, <<PyInt(10), PyInt(2)>>>>),
     Frame(<<price>>, <<"object">>, <<>>)}

BatchLists(n) == [1..n -> Batches]

InitNormalize ==
    /\ pc = "left"
    /\ source_type = "batches" /\ input_data = PyNone /\ chunk_size = DefaultChunkSize
    /\ gpu_mode \in BOOLEAN
    /\ domain = PyStr(<<"g", "e", "n", "e", "r", "i", "c">>)
    /\ Fresh
    /\ df1 = PyNone /\ df2 = PyNone
    /\ \E n1, n2 \in 0..MaxBatches :
        /\ n1 + n2 <= MaxBatches
        /\ batches1 \in BatchLists(n1)
        /\ batches2 \in BatchLists(n2)

\* df1 = Transformer.transform(gpu_mode, batches1)
NormalizeLeft ==
    /\ pc = "left"
    /\ df1' = transform(gpu_mode, PyList(batches1)).val
    /\ pc' = "right"
    /\ UNCHANGED <<source_type, input_data, chunk_size, gpu_mode, domain, chunks, df, fig,
                   summary, raised, prev, batches1, batches2, df2>>

\* df2 = Transformer.transform(gpu_mode, batches2)
NormalizeRight ==
    /\ pc = "right"
    /\ df2' = transform(gpu_mode, PyList(batches2)).val
    /\ pc' = "both"
    /\ UNCHANGED <<source_type, input_data, chunk_size, gpu_mode, domain, chunks, df, fig,
                   summary, raised, prev, batches1, batches2, df1>>

\* df = Transformer.transform(gpu_mode, batches1 + batches2)
NormalizeBoth ==
    /\ pc = "both"
    /\ chunks' = PyList(batches1 \o batches2)
    /\ df' = transform(gpu_mode, PyList(batches1 \o batches2)).val
    /\ pc' = "joined"
    /\ UNCHANGED <<source_type, input_data, chunk_size, gpu_mode, domain, fig,
                   summary, raised, prev, batches1, batches2, df1, df2>>

NextNormalize == NormalizeLeft \/ NormalizeRight \/ NormalizeBoth

SpecNormalize == InitNormalize /\ [][NextNormalize]_vars

\* ----------------------------------------------------------------- claims
\* two cells hold the same value; every missing value counts as the same null
SameCell(a, b) == a = b \/ (isna(a) /\ isna(b))

CeilDiv(n, c) == IF n = 0 THEN 0 ELSE ((n - 1) \div c) + 1

RECURSIVE AllRows(_)
\* the rows of a list of frames, one frame after the other
AllRows(frames) == IF frames = <<>> THEN <<>> ELSE Head(frames)[2].rows \o AllRows(Tail(frames))

\* the positions of the int64 and float64 columns of a frame
NumericPositions(frame) ==
    {j \in 1..Len(frame[2].columns) : frame[2].dtypes[j] \in {"int64", "float64"}}

\* the rows of column j that hold a value
ValueRows(frame, j) == {r \in 1..Len(frame[2].rows) : ~isna(frame[2].rows[r][j])}

RECURSIVE SumOver(_, _, _)
\* the sum of the values column j holds in the rows of the set rows
SumOver(frame, j, rows) ==
    IF rows = {} THEN 0
    ELSE LET r == CHOOSE q \in rows : TRUE
         IN frame[2].rows[r][j][2] + SumOver(frame, j, rows \ {r})

RECURSIVE ProductOfCounts(_, _)
\* the product of the numbers of values the columns of the set js hold
ProductOfCounts(frame, js) ==
    IF js = {} THEN 1
    ELSE LET j == CHOOSE q \in js : TRUE
         IN Cardinality(ValueRows(frame, j)) * ProductOfCounts(frame, js \ {j})

RECURSIVE MeansNumerator(_, _, _)
\* the sum of the means of the columns js, as a numerator over the denominator prod
MeansNumerator(frame, js, prod) ==
    IF js = {} THEN 0
    ELSE LET j == CHOOSE q \in js : TRUE
         IN SumOver(frame, j, ValueRows(frame, j)) * (prod \div Cardinality(ValueRows(frame, j)))
            + MeansNumerator(frame, js \ {j}, prod)

\* the digits of h hundredths, as in 6.00
Hundredths(h) ==
    IntChars(h \div 100) \o <<".", Digits[((h \div 10) % 10) + 1], Digits[(h % 10) + 1]>>

Abs(n) == IF n < 0 THEN -n ELSE n

\* hay holds needle, whatever the case of its letters (needle is in lower case)
Contains(hay, needle) ==
    \E i \in 1..(Len(hay) - Len(needle) + 1) :
        \A k \in 1..Len(needle) : lower(hay[i + k - 1]) = needle[k]

NoNumericData == <<"n", "o", " ", "n", "u", "m", "e", "r", "i", "c", " ", "d", "a", "t", "a">>

\* C1: for every text input, ingest returns a sequence of batches and transform
\* on it completes with a table, no exception escaping. Stated as the claim
\* states it; transform raises TypeError on a JSON number, boolean or null.
C1_NoExceptionEscapes ==
    source_type = "text" =>
        /\ raised = "none"
        /\ pc \in {"insight", "done"} => df[1] = "DataFrame"

C3_MetricDefaultsToZero ==
    (/\ pc = "done"
     /\ NumericPositions(df) # {}
     /\ \A j \in NumericPositions(df) : ValueRows(df, j) = {}) =>
        summary = PyStr(KeyMetric \o Hundredths(0) \o Numerics
                        \o IntChars(Cardinality(NumericPositions(df))) \o Cols)

\* C4: for a sheet of N rows and chunk_size C > 0, ingest returns ceil(N/C)
\* chunks, each of 1..C rows, whose rows in order are the N rows of the sheet
C4_ChunksPartitionRows ==
    (pc # "ingest" /\ source_type = "excel" /\ hasattr_read(input_data)) =>
        LET sheet == input_data[2] IN
        /\ raised = "none"
        /\ chunks[1] = "list"
        /\ Len(chunks[2]) = CeilDiv(Len(sheet[2].rows), chunk_size)
        /\ \A k \in 1..Len(chunks[2]) :
            /\ chunks[2][k][1] = "DataFrame"
            /\ chunks[2][k][2].columns = sheet[2].columns
            /\ Len(chunks[2][k][2].rows) \in 1..chunk_size
        /\ AllRows(chunks[2]) = sheet[2].rows

C4_Witness ==
    /\ pc = "transform" /\ source_type = "excel" /\ hasattr_read(input_data)
    /\ Len(input_data[2][2].rows) = 3 /\ chunk_size = 2
    /\ Len(chunks[2]) = 2
    /\ Len(chunks[2][2][2].rows) = 1

\* C5: transform(batches1 + batches2) has the rows of transform(batches1)
\* followed by the rows of transform(batches2), its columns are the union of
\* both column sets, and a field a row lacks is null in that row
C5_ConcatOfNormalized ==
    pc = "joined" =>
        LET cols == df[2].columns
            cell(frame, r, c) ==
                IF ColIndex(frame[2].columns, c) = 0 THEN NaN
                ELSE frame[2].rows[r][ColIndex(frame[2].columns, c)]
        IN
        /\ Range(cols) = Range(df1[2].columns) \cup Range(df2[2].columns)
        /\ Cardinality(Range(cols)) = Len(cols)
        /\ Len(df[2].rows) = Len(df1[2].rows) + Len(df2[2].rows)
        /\ \A r \in 1..Len(df[2].rows) : Len(df[2].rows[r]) = Len(cols)
        /\ \A r \in 1..Len(df1[2].rows) : \A j \in 1..Len(cols) :
            SameCell(df[2].rows[r][j], cell(df1, r, cols[j]))
        /\ \A r \in 1..Len(df2[2].rows) : \A j \in 1..Len(cols) :
            SameCell(df[2].rows[Len(df1[2].rows) + r][j], cell(df2, r, cols[j]))

C5_Witness ==
    /\ pc = "joined"
    /\ Len(batches1) = 2 /\ Len(batches2) = 1
    /\ Len(df1[2].rows) = 3 /\ Len(df2[2].rows) = 1
    /\ Range(df2[2].columns) \ Range(df1[2].columns) # {}
    /\ Range(df1[2].columns) \ Range(df2[2].columns) # {}

\* C6: when some numeric column holds a value, the chart has one bar per
\* numeric column, in column order, at the mean of the values the column
\* holds (NaN for a numeric column that holds none); the headline gives the
\* mean of the means of the columns that hold values, to two decimals, and
\* the number of numeric columns
C6_MeanOfColumnMeans ==
    (pc = "done" /\ \E j \in NumericPositions(df) : ValueRows(df, j) # {}) =>
        LET numeric == NumericPositions(df)
            valued == {j \in numeric : ValueRows(df, j) # {}}
            rank(j) == Cardinality({i \in numeric : i <= j})
            prod == ProductOfCounts(df, valued)
            num == MeansNumerator(df, valued, prod)
            den == prod * Cardinality(valued)
        IN
        /\ Len(fig[2].x) = Cardinality(numeric) /\ Len(fig[2].y) = Cardinality(numeric)
        /\ \A j \in numeric :
            /\ fig[2].x[rank(j)] = df[2].columns[j]
            /\ IF j \in valued
               THEN /\ ~fig[2].y[rank(j)].nan
                    /\ fig[2].y[rank(j)].num * Cardinality(ValueRows(df, j))
                        = SumOver(df, j, ValueRows(df, j)) * fig[2].y[rank(j)].den
               ELSE fig[2].y[rank(j)].nan
        /\ \E h \in {(100 * num) \div den, ((100 * num) \div den) + 1} :
            /\ Abs(200 * num - 2 * h * den) <= den
            /\ summary = PyStr(KeyMetric \o Hundredths(h) \o Numerics
                               \o IntChars(Cardinality(numeric)) \o Cols)

\* the end-to-end example: price 10, qty 2 gives the means 10.0 and 2.0, the
\* headline metric 6.00 and the count 2
C6_Witness ==
    /\ pc = "done"
    /\ df = Frame(<<price, qty>>, <<"int64", "int64">>, <<<<PyInt(10), PyInt(2)>>>>)
    /\ fig[2].x = <<price, qty>>
    /\ fig[2].y = <<Rat(10, 1), Rat(2, 1)>>
    /\ summary = PyStr(KeyMetric \o <<"6", ".", "0", "0">> \o Numerics \o <<"2">> \o Cols)

\* C7: for a text that is not valid JSON, ingest returns one batch, the one
\* record {"raw": text} with the text as it was typed, and raises nothing
C7_InvalidTextBecomesRaw ==
    (source_type = "text" /\ input_data[2] \in InvalidTexts) =>
        /\ raised = "none"
        /\ pc # "ingest" => chunks = PyList(<<PyDict(<<<<raw, PyStr(input_data[2])>>>>)>>)

C7_Witness ==
    /\ pc = "transform" /\ source_type = "text"
    /\ input_data[2] = <<"[", "2", ",", " ", "1", "0", ",", "]">>
    /\ Len(chunks[2]) = 1
    /\ chunks[2][1][2][1][2][2] = <<"[", "2", ",", " ", "1", "0", ",", "]">>

\* C8: for a text that is a valid JSON object, ingest returns one batch, the
\* one record equal to the object, and transform of it is a table of one row
\* whose columns are the object's field names
C8_ObjectBecomesOneRow ==
    (source_type = "text" /\ input_data[2] \in ObjectTexts) =>
        LET d == json_loads(input_data[2]).val IN
        /\ d \in Objects /\ Dumps(d) = input_data[2]
        /\ raised = "none"
        /\ pc # "ingest" => chunks = PyList(<<d>>)
        /\ pc \in {"insight", "done"} =>
            /\ Len(df[2].rows) = 1
            /\ df[2].columns = [n \in 1..Len(d[2]) |-> d[2][n][1]]
            /\ df[2].rows[1] = [n \in 1..Len(d[2]) |-> d[2][n][2]]

C8_Witness ==
    /\ pc = "done" /\ source_type = "text"
    /\ input_data[2] = Dumps(PyDict(<<<<price, PyInt(10)>>, <<qty, PyInt(2)>>>>))
    /\ df[2].columns = <<price, qty>>
    /\ Len(df[2].rows) = 1

\* C9: two presses on the same input that differ only in the GPU checkbox or
\* the domain label give the same table, the same numeric columns, the same
\* means and the same headline (metric and count)
C9_SettingsAreDisplayOnly ==
    (pc = "done" /\ prev[1] = "run") =>
        /\ df = prev[2].df
        /\ fig[2].x = prev[2].fig[2].x
        /\ fig[2].y = prev[2].fig[2].y
        /\ summary = prev[2].summary

C9_Witness ==
    /\ pc = "done" /\ prev[1] = "run"
    /\ prev[2].gpu_mode # gpu_mode
    /\ prev[2].domain # domain
    /\ Len(df[2].rows) > 1
    /\ fig[2].x # <<>>
    /\ fig[2].title # prev[2].fig[2].title

\* row r of frame carries the array element e and nothing else
RowCarries(frame, r, e) ==
    \A j \in 1..Len(frame[2].columns) :
        LET c == frame[2].columns[j]
            x == frame[2].rows[r][j]
        IN CASE e[1] = "dict" ->
                  IF \E n \in 1..Len(e[2]) : e[2][n][1] = c
                  THEN \E n \in 1..Len(e[2]) : e[2][n][1] = c /\ SameCell(x, e[2][n][2])
                  ELSE isna(x)
             [] e[1] = "list" ->
                  IF c[1] = "int" /\ c[2] < Len(e[2]) THEN SameCell(x, e[2][c[2] + 1]) ELSE isna(x)
             [] OTHER ->
                  IF c = PyInt(0) THEN SameCell(x, e) ELSE isna(x)

\* C10: for a text that parses as a JSON array of k elements, ingest and then
\* transform give a table of k rows, row n carrying element n, whether the
\* element is a mapping or not; k = 0 gives the empty table
C10_ArrayElementsBecomeRows ==
    LET parsed == json_loads(input_data[2]) IN
    (source_type = "text" /\ parsed.ok /\ parsed.val[1] = "list") =>
        /\ raised = "none"
        /\ pc \in {"insight", "done"} =>
            /\ Len(df[2].rows) = Len(parsed.val[2])
            /\ \A n \in 1..Len(parsed.val[2]) : RowCarries(df, n, parsed.val[2][n])
            /\ parsed.val[2] = <<>> => df = EmptyFrame

C10_Witness ==
    /\ pc = "done" /\ source_type = "text"
    /\ input_data[2] = Dumps(PyList(<<PyNone, PyList(<<PyInt(2), PyStr(<<"x">>)>>)>>))
    /\ Len(df[2].rows) = 2
    /\ Len(df[2].columns) = 2

====
